---------------------------- MODULE Spec2Model ----------------------------
(***************************************************************************)
(* A model of scss.c, the character-based tag scanner for stylesheets.     *)
(*                                                                         *)
(* findScssTags reads the input line by line and hands each line to        *)
(* parseScssLine, which walks the line one character at a time under a     *)
(* ScssParserState and calls parseScssDeclaration when a selector, a class *)
(* or an id starts. parseScssDeclaration accumulates the clause, reading   *)
(* further lines itself when the line ends, and emits one tag through      *)
(* makeScssSimpleTag.                                                      *)
(*                                                                         *)
(* A character is a one-character string, a line is a sequence of          *)
(* characters, and the byte that ends a C string is NUL. The cursor        *)
(* (`line` in parseScssLine, `cp` in parseScssDeclaration) is the index    *)
(* pos into mem, the memory that holds the current line: the characters of *)
(* the line, the terminating NUL, and then whatever bytes lie behind the   *)
(* terminator. The code can move the cursor behind the terminator and can  *)
(* read the byte in front of the line; what it finds there is not defined  *)
(* by the program, so the model lets every such read return any byte of a  *)
(* representative set, and remembers the bytes behind the terminator in    *)
(* mem once they have been looked at so that a second read sees the same   *)
(* byte. Behind the last explored byte the memory reads as NUL.            *)
(***************************************************************************)
EXTENDS Integers, Sequences, FiniteSets, TLC

(***************************************************************************)
(* Bounds of the model.                                                    *)
(***************************************************************************)
\* A generated input has at most this many characters and lines together.
MaxInput == 5
\* At most this many bytes behind a line's terminator are explored.
MaxOverrun == 2

(***************************************************************************)
(* Characters.                                                             *)
(***************************************************************************)
NUL == "NUL"

Letter ==
    {"a", "b", "c", "d", "e", "f", "g", "h", "i", "j", "k", "l", "m",
     "n", "o", "p", "q", "r", "s", "t", "u", "v", "w", "x", "y", "z"}

Digit == {"0", "1"}

\* isalnum and isspace of <ctype.h>, on the characters the model uses.
isalnum(c) == c \in Letter \cup Digit

isspace(c) == c \in {" ", "\t"}

\* The characters generated inputs are built from.
GenChar == {".", "a", " ", ",", "{", "}"}

\* The bytes a read behind the terminator of a line may find.
GarbageByte == {NUL, "x", "{", ";"}

\* The bytes a read in front of the first character of a line may find:
\* the three values a lookback compares with, and one other.
BeforeByte == {"/", "*", "\\", NUL}

(***************************************************************************)
(* cssKind and ScssParserState.                                            *)
(***************************************************************************)
K_CLASS == "K_CLASS"
K_SELECTOR == "K_SELECTOR"
K_ID == "K_ID"

cssKind == {K_CLASS, K_SELECTOR, K_ID}

P_STATE_NONE == "P_STATE_NONE"
P_STATE_IN_COMMENT == "P_STATE_IN_COMMENT"
P_STATE_IN_SINGLE_STRING == "P_STATE_IN_SINGLE_STRING"
P_STATE_IN_DOUBLE_STRING == "P_STATE_IN_DOUBLE_STRING"
P_STATE_IN_DEFINITION == "P_STATE_IN_DEFINITION"
P_STATE_IN_MEDIA == "P_STATE_IN_MEDIA"
P_STATE_IN_IMPORT == "P_STATE_IN_IMPORT"
P_STATE_IN_NAMESPACE == "P_STATE_IN_NAMESPACE"
P_STATE_IN_PAGE == "P_STATE_IN_PAGE"
P_STATE_IN_FONTFACE == "P_STATE_IN_FONTFACE"
P_STATE_AT_END == "P_STATE_AT_END"

ScssParserState ==
    {P_STATE_NONE, P_STATE_IN_COMMENT, P_STATE_IN_SINGLE_STRING,
     P_STATE_IN_DOUBLE_STRING, P_STATE_IN_DEFINITION, P_STATE_IN_MEDIA,
     P_STATE_IN_IMPORT, P_STATE_IN_NAMESPACE, P_STATE_IN_PAGE,
     P_STATE_IN_FONTFACE, P_STATE_AT_END}

(***************************************************************************)
(* Inputs: the examples of the specification, written out, and every small *)
(* input over GenChar.                                                     *)
(***************************************************************************)
\* .foo, .bar { color: red; }
In_ClassList ==
    << <<".", "f", "o", "o", ",", " ", ".", "b", "a", "r", " ", "{", " ", "c", "o", "l", "o", "r", ":", " ", "r", "e", "d", ";", " ", "}">> >>

\* .foo,.bar {}
In_ClassListTight ==
    << <<".", "f", "o", "o", ",", ".", "b", "a", "r", " ", "{", "}">> >>

\* /* .ignored { color:red; } */ | .real {}
In_Comment ==
    << <<"/", "*", " ", ".", "i", "g", "n", "o", "r", "e", "d", " ", "{", " ", "c", "o", "l", "o", "r", ":", "r", "e", "d", ";", " ", "}", " ", "*", "/">>,
       <<".", "r", "e", "a", "l", " ", "{", "}">> >>

\* /*/ .x { } */
In_CommentSlash ==
    << <<"/", "*", "/", " ", ".", "x", " ", "{", " ", "}", " ", "*", "/">> >>

\* /* | / .x {} | */
In_CommentLines ==
    << <<"/", "*">>,
       <<"/", " ", ".", "x", " ", "{", "}">>,
       <<"*", "/">> >>

\* .a { .b { x: y; } color: red; }
In_Nested ==
    << <<".", "a", " ", "{", " ", ".", "b", " ", "{", " ", "x", ":", " ", "y", ";", " ", "}", " ", "c", "o", "l", "o", "r", ":", " ", "r", "e", "d", ";", " ", "}">> >>

\* .foo, | .bar {}
In_Split ==
    << <<".", "f", "o", "o", ",">>,
       <<".", "b", "a", "r", " ", "{", "}">> >>

\* .foo, .bar {}
In_Joined ==
    << <<".", "f", "o", "o", ",", " ", ".", "b", "a", "r", " ", "{", "}">> >>

\* @media screen { | .nested {} | }
In_Media ==
    << <<"@", "m", "e", "d", "i", "a", " ", "s", "c", "r", "e", "e", "n", " ", "{">>,
       <<".", "n", "e", "s", "t", "e", "d", " ", "{", "}">>,
       <<"}">> >>

\* @media screen | {
In_MediaSplit ==
    << <<"@", "m", "e", "d", "i", "a", " ", "s", "c", "r", "e", "e", "n">>,
       <<"{">> >>

\* @import url(x.css); | .after {}
In_Import ==
    << <<"@", "i", "m", "p", "o", "r", "t", " ", "u", "r", "l", "(", "x", ".", "c", "s", "s", ")", ";">>,
       <<".", "a", "f", "t", "e", "r", " ", "{", "}">> >>

\* @import url(x.css) | ;
In_ImportSplit ==
    << <<"@", "i", "m", "p", "o", "r", "t", " ", "u", "r", "l", "(", "x", ".", "c", "s", "s", ")">>,
       <<";">> >>

\* #header { margin: 0; }
In_Id ==
    << <<"#", "h", "e", "a", "d", "e", "r", " ", "{", " ", "m", "a", "r", "g", "i", "n", ":", " ", "0", ";", " ", "}">> >>

\* p > span { }
In_Selector ==
    << <<"p", " ", ">", " ", "s", "p", "a", "n", " ", "{", " ", "}">> >>

\* @page { a: 'b' } | @namespace x; | @font-face { a: "b" } | #i
In_AtRules ==
    << <<"@", "p", "a", "g", "e", " ", "{", " ", "a", ":", " ", "'", "b", "'", " ", "}">>,
       <<"@", "n", "a", "m", "e", "s", "p", "a", "c", "e", " ", "x", ";">>,
       <<"@", "f", "o", "n", "t", "-", "f", "a", "c", "e", " ", "{", " ", "a", ":", " ", "\"", "b", "\"", " ", "}">>,
       <<"#", "i">> >>

\* *
In_Star ==
    << <<"*">> >>

\* * | .a { }
In_StarRule ==
    << <<"*">>,
       <<".", "a", " ", "{", " ", "}">> >>

\* .a {}
In_OneRule ==
    << <<".", "a", " ", "{", "}">> >>

\* .a {} | .b {}
In_TwoRules ==
    << <<".", "a", " ", "{", "}">>,
       <<".", "b", " ", "{", "}">> >>

\* .foo | {
In_SplitBrace ==
    << <<".", "f", "o", "o">>,
       <<"{">> >>

\* @media
In_MediaBare ==
    << <<"@", "m", "e", "d", "i", "a">> >>

\* .q { a: "}' | \" b" c: '"}' }
In_String ==
    << <<".", "q", " ", "{", " ", "a", ":", " ", "\"", "}", "'">>,
       <<"\\", "\"", " ", "b", "\"", " ", "c", ":", " ", "'", "\"", "}", "'", " ", "}">> >>

\* .a , p > b { } c; #d 
In_Mixed ==
    << <<".", "a", " ", ",", " ", "p", " ", ">", " ", "b", " ", "{", " ", "}", " ", "c", ";", " ", "#", "d", " ">> >>

Examples ==
    {In_ClassList, In_ClassListTight, In_Comment, In_CommentSlash,
     In_CommentLines, In_Nested,
     In_Split, In_Joined, In_Media, In_MediaSplit, In_Import, In_ImportSplit,
     In_Id, In_Selector, In_AtRules, In_Star, In_StarRule, In_OneRule,
     In_TwoRules, In_SplitBrace, In_MediaBare, In_String, In_Mixed}

\* The lines over GenChar of at most n characters.
GenLines(n) == UNION {[1..m -> GenChar] : m \in 0..n}

\* The inputs over GenChar whose characters and lines together number at
\* most budget.
RECURSIVE GenFiles(_)
GenFiles(budget) ==
    IF budget <= 0
    THEN {<< >>}
    ELSE {<< >>} \cup
         UNION {{<<l>> \o f : f \in GenFiles(budget - 1 - Len(l))} :
                l \in GenLines(budget - 1)}

Inputs == Examples \cup GenFiles(MaxInput)

(***************************************************************************)
(* The state.                                                              *)
(***************************************************************************)
VARIABLES
    file,     \* the input, a sequence of lines (what the line source holds)
    reads,    \* the number of calls of fileReadLine so far
    mem,      \* the current line, its NUL, and the bytes seen behind it
    linelen,  \* the length of the current line
    pos,      \* the cursor into mem; 0 is the NULL pointer
    state,    \* findScssTags' and parseScssLine's `state`
    pc,       \* where the program is
    name,     \* parseScssDeclaration's `name`
    kind,     \* parseScssDeclaration's `kind`
    aux,      \* parseScssLine's `aux`, the keyword after an @
    tags,     \* the tags handed to makeSimpleTag, in order
    calls,    \* the kinds parseScssDeclaration was called with, in order
    emitted,  \* for each call of makeScssSimpleTag, in order: the contents
              \* of name at the call and the exit of the loop that made it
    opened,   \* for each call of parseScssDeclaration, in order: the line
              \* and the column of the character it was called at
    scan,     \* which scan of the input this is (findScssTags runs once
              \* per scan)
    first     \* the tags and the final state of the scan before this one

vars ==
    <<file, reads, mem, linelen, pos, state, pc, name, kind, aux, tags, calls,
      emitted, opened, scan, first>>

Init ==
    /\ file \in Inputs
    /\ reads = 0
    /\ mem = <<NUL>>
    /\ linelen = 0
    /\ pos = 0
    /\ state = P_STATE_NONE
    /\ pc = "find"
    /\ name = << >>
    /\ kind = K_SELECTOR
    /\ aux = << >>
    /\ tags = << >>
    /\ calls = << >>
    /\ emitted = << >>
    /\ opened = << >>
    /\ scan = 1
    /\ first = [tags |-> << >>, state |-> P_STATE_NONE]

(***************************************************************************)
(* Memory. The bytes the cursor can find at pos: the byte of mem when it   *)
(* is known, any garbage byte when pos is the first position behind what   *)
(* is known, and NUL behind the explored memory.                           *)
(***************************************************************************)
\* The last position of the explored memory.
MemEnd == linelen + 1 + MaxOverrun

Bytes ==
    IF pos <= Len(mem)
    THEN {mem[pos]}
    ELSE IF Len(mem) < MemEnd
         THEN GarbageByte
         ELSE {NUL}

\* mem after the byte c was found at pos.
Seen(c) == IF pos <= Len(mem) \/ Len(mem) >= MemEnd THEN mem ELSE Append(mem, c)

\* The bytes *(line-1) can be.
Prev ==
    IF pos = 1 THEN BeforeByte
    ELSE IF pos - 1 <= Len(mem) THEN {mem[pos - 1]}
    ELSE {NUL}

\* vStringPut: appends a character; putting the terminator adds nothing.
vStringPut(s, c) == IF c = NUL THEN s ELSE Append(s, c)

\* vStringStripTrailing: drops the whitespace at the end of s.
RECURSIVE vStringStripTrailing(_)
vStringStripTrailing(s) ==
    IF Len(s) > 0 /\ isspace(s[Len(s)])
    THEN vStringStripTrailing(SubSeq(s, 1, Len(s) - 1))
    ELSE s

\* fileReadLine: TRUE when the line source has another line.
HasLine == reads < Len(file)

\* makeScssSimpleTag as it would be if it stripped every kind of tag.
makeScssSimpleTag_StripAll(nm, k) ==
    Append(tags, [kind |-> k, name |-> vStringStripTrailing(nm)])

\* makeScssSimpleTag: the tags after emitting buffer nm with kind k.
makeScssSimpleTag(nm, k) ==
    Append(tags, [kind |-> k,
                  name |-> IF k = K_CLASS THEN vStringStripTrailing(nm) ELSE nm])

\* isScssDeclarationAllowedChar as it would be if line 61 were missing.
isScssDeclarationAllowedChar_NoDot(c) ==
    \/ isalnum(c)
    \/ isspace(c)
    \/ c \in {"_", "-", "+", ">", "{", ",", ":", "*", "#"}

isScssDeclarationAllowedChar(c) ==
    \/ isalnum(c)
    \/ isspace(c)
    \/ c \in {"_", "-", "+", ">", "{", ".", ",", ":", "*", "#"}


(***************************************************************************)
(* findScssTags.                                                           *)
(***************************************************************************)
\* while ((line = fileReadLine ()) != NULL) state = parseScssLine (line, state)
findScssTags_ReadLine ==
    /\ pc = "find"
    /\ reads' = reads + 1
    /\ IF HasLine
       THEN /\ mem' = Append(file[reads + 1], NUL)
            /\ linelen' = Len(file[reads + 1])
            /\ pos' = 1
            /\ pc' = "line"
       ELSE /\ pc' = "done"
            /\ UNCHANGED <<mem, linelen, pos>>
    /\ UNCHANGED <<file, scan, first, state, name, kind, aux, tags, calls, opened, emitted>>

\* parseScssLine returns its state; findScssTags returns at P_STATE_AT_END.
parseScssLine_Return ==
    /\ pc = "ret"
    /\ pc' = IF state = P_STATE_AT_END THEN "done" ELSE "find"
    /\ UNCHANGED <<file, scan, first, reads, mem, linelen, pos, state, name, kind, aux, tags, calls, opened, emitted>>

(***************************************************************************)
(* parseScssLine.                                                          *)
(***************************************************************************)
\* while (*line != '\0')
parseScssLine_While ==
    /\ pc = "line"
    /\ \E c \in Bytes :
          /\ mem' = Seen(c)
          /\ pc' = IF c = NUL THEN "ret" ELSE "skipws"
    /\ UNCHANGED <<file, scan, first, reads, linelen, pos, state, name, kind, aux, tags, calls, opened, emitted>>

\* while (isspace ((int) *line)) ++line;
parseScssLine_SkipSpace ==
    /\ pc = "skipws"
    /\ \E c \in Bytes :
          /\ mem' = Seen(c)
          /\ IF isspace(c)
             THEN pos' = pos + 1 /\ pc' = pc
             ELSE pos' = pos /\ pc' = "switch"
    /\ UNCHANGED <<file, scan, first, reads, linelen, state, name, kind, aux, tags, calls, opened, emitted>>

\* The state an @ keyword selects; an unknown keyword leaves the state.
AtRuleState(kw, old) ==
    IF kw = <<"m", "e", "d", "i", "a">> THEN P_STATE_IN_MEDIA
    ELSE IF kw = <<"i", "m", "p", "o", "r", "t">> THEN P_STATE_IN_IMPORT
    ELSE IF kw = <<"n", "a", "m", "e", "s", "p", "a", "c", "e">> THEN P_STATE_IN_NAMESPACE
    ELSE IF kw = <<"p", "a", "g", "e">> THEN P_STATE_IN_PAGE
    ELSE IF kw = <<"f", "o", "n", "t", "-", "f", "a", "c", "e">> THEN P_STATE_IN_FONTFACE
    ELSE old

\* The call as it would be if the cursor were moved behind the character
\* that introduces the clause before the clause is accumulated.
CallDeclaration_SkipFirst(k) ==
    /\ pc' = "decl"
    /\ kind' = k
    /\ name' = << >>
    /\ calls' = Append(calls, k)
    /\ opened' = Append(opened, <<reads, pos>>)
    /\ pos' = pos + 1
    /\ UNCHANGED <<state, aux>>

\* The call parseScssDeclaration (&line, k): a fresh name, cp = *position.
CallDeclaration(k) ==
    /\ pc' = "decl"
    /\ kind' = k
    /\ name' = << >>
    /\ calls' = Append(calls, k)
    /\ opened' = Append(opened, <<reads, pos>>)
    /\ UNCHANGED <<pos, state, aux>>

\* case P_STATE_NONE
parseScssLine_None ==
    /\ pc = "switch"
    /\ state = P_STATE_NONE
    /\ \E c \in Bytes, p \in Prev :
          /\ mem' = Seen(c)
          /\ IF isalnum(c) THEN CallDeclaration(K_SELECTOR)
             ELSE IF c = "." THEN CallDeclaration(K_CLASS)
             ELSE IF c = "#" THEN CallDeclaration(K_ID)
             ELSE IF c = "@"
             THEN /\ pos' = pos + 1
                  /\ aux' = << >>
                  /\ pc' = "at"
                  /\ UNCHANGED <<state, name, kind, calls, opened>>
             ELSE /\ state' = IF c = "*" /\ p = "/" THEN P_STATE_IN_COMMENT ELSE state
                  /\ pc' = "incr"
                  /\ UNCHANGED <<pos, name, kind, aux, calls, opened>>
    /\ UNCHANGED <<file, scan, first, reads, linelen, tags, emitted>>

\* while (!isspace ((int) *line)) { vStringPut (aux, *line); ++line; }
\* and the strcmp chain that follows it. Behind the explored memory the
\* loop finds no whitespace, and the model follows it no further.
parseScssLine_AtKeyword ==
    /\ pc = "at"
    /\ pos <= MemEnd
    /\ \E c \in Bytes :
          /\ mem' = Seen(c)
          /\ IF ~isspace(c)
             THEN /\ aux' = vStringPut(aux, c)
                  /\ pos' = pos + 1
                  /\ UNCHANGED <<state, pc>>
             ELSE /\ state' = AtRuleState(aux, state)
                  /\ pc' = "incr"
                  /\ UNCHANGED <<aux, pos>>
    /\ UNCHANGED <<file, scan, first, reads, linelen, name, kind, tags, calls, opened, emitted>>

\* case P_STATE_IN_COMMENT
parseScssLine_InComment ==
    /\ pc = "switch"
    /\ state = P_STATE_IN_COMMENT
    /\ \E c \in Bytes, p \in Prev :
          /\ mem' = Seen(c)
          /\ state' = IF c = "/" /\ p = "*" THEN P_STATE_NONE ELSE state
    /\ pc' = "incr"
    /\ UNCHANGED <<file, scan, first, reads, linelen, pos, name, kind, aux, tags, calls, opened, emitted>>

\* case P_STATE_IN_SINGLE_STRING
parseScssLine_InSingleString ==
    /\ pc = "switch"
    /\ state = P_STATE_IN_SINGLE_STRING
    /\ \E c \in Bytes, p \in Prev :
          /\ mem' = Seen(c)
          /\ state' = IF c = "'" /\ p # "\\" THEN P_STATE_IN_DEFINITION ELSE state
    /\ pc' = "incr"
    /\ UNCHANGED <<file, scan, first, reads, linelen, pos, name, kind, aux, tags, calls, opened, emitted>>

\* The double-quoted string as it would be if its end led to P_STATE_NONE.
parseScssLine_InDoubleString_ToNone ==
    /\ pc = "switch"
    /\ state = P_STATE_IN_DOUBLE_STRING
    /\ \E c \in Bytes, p \in Prev :
          /\ mem' = Seen(c)
          /\ state' = IF c = "\"" /\ p # "\\" THEN P_STATE_NONE ELSE state
    /\ pc' = "incr"
    /\ UNCHANGED <<file, scan, first, reads, linelen, pos, name, kind, aux, tags, calls, opened, emitted>>

\* case P_STATE_IN_DOUBLE_STRING
parseScssLine_InDoubleString ==
    /\ pc = "switch"
    /\ state = P_STATE_IN_DOUBLE_STRING
    /\ \E c \in Bytes, p \in Prev :
          /\ mem' = Seen(c)
          /\ state' = IF c = "\"" /\ p # "\\" THEN P_STATE_IN_DEFINITION ELSE state
    /\ pc' = "incr"
    /\ UNCHANGED <<file, scan, first, reads, linelen, pos, name, kind, aux, tags, calls, opened, emitted>>

\* The loops of P_STATE_IN_MEDIA and P_STATE_IN_IMPORT: one step of
\* while (*line != stop) { if (*line == '\0') break; ++line; }
\* and, when the loop ends, if (*line == stop) state = P_STATE_NONE.
SkipTo(stop) ==
    \E c \in Bytes :
       /\ mem' = Seen(c)
       /\ IF c = stop
          THEN state' = P_STATE_NONE /\ pos' = pos /\ pc' = "incr"
          ELSE IF c = NUL
          THEN state' = state /\ pos' = pos /\ pc' = "incr"
          ELSE state' = state /\ pos' = pos + 1 /\ pc' = pc

\* case P_STATE_IN_MEDIA
parseScssLine_InMedia ==
    /\ pc = "switch"
    /\ state = P_STATE_IN_MEDIA
    /\ SkipTo("{")
    /\ UNCHANGED <<file, scan, first, reads, linelen, name, kind, aux, tags, calls, opened, emitted>>

\* case P_STATE_IN_IMPORT, P_STATE_IN_NAMESPACE
parseScssLine_InImport ==
    /\ pc = "switch"
    /\ state \in {P_STATE_IN_IMPORT, P_STATE_IN_NAMESPACE}
    /\ SkipTo(";")
    /\ UNCHANGED <<file, scan, first, reads, linelen, name, kind, aux, tags, calls, opened, emitted>>

\* The rule body as it would be if a `.` in it started a class declaration.
parseScssLine_InDefinition_Nested ==
    /\ pc = "switch"
    /\ state \in {P_STATE_IN_PAGE, P_STATE_IN_FONTFACE, P_STATE_IN_DEFINITION}
    /\ \E c \in Bytes :
          /\ mem' = Seen(c)
          /\ IF c = "."
             THEN CallDeclaration(K_CLASS)
             ELSE /\ state' = IF c = "}" THEN P_STATE_NONE
                               ELSE IF c = "'" THEN P_STATE_IN_SINGLE_STRING
                               ELSE IF c = "\"" THEN P_STATE_IN_DOUBLE_STRING
                               ELSE state
                  /\ pc' = "incr"
                  /\ UNCHANGED <<pos, name, kind, aux, calls, opened>>
    /\ UNCHANGED <<file, scan, first, reads, linelen, tags, emitted>>

\* case P_STATE_IN_PAGE, P_STATE_IN_FONTFACE, P_STATE_IN_DEFINITION
parseScssLine_InDefinition ==
    /\ pc = "switch"
    /\ state \in {P_STATE_IN_PAGE, P_STATE_IN_FONTFACE, P_STATE_IN_DEFINITION}
    /\ \E c \in Bytes :
          /\ mem' = Seen(c)
          /\ state' = IF c = "}" THEN P_STATE_NONE
                      ELSE IF c = "'" THEN P_STATE_IN_SINGLE_STRING
                      ELSE IF c = "\"" THEN P_STATE_IN_DOUBLE_STRING
                      ELSE state
    /\ pc' = "incr"
    /\ UNCHANGED <<file, scan, first, reads, linelen, pos, name, kind, aux, tags, calls, opened, emitted>>

\* if (line == NULL) break; line++;
\* The byte the cursor steps over exists whether or not it was read.
parseScssLine_Next ==
    /\ pc = "incr"
    /\ IF pos = 0
       THEN pc' = "ret" /\ UNCHANGED <<mem, pos>>
       ELSE \E c \in Bytes :
               /\ mem' = Seen(c)
               /\ pos' = pos + 1
               /\ pc' = "line"
    /\ UNCHANGED <<file, scan, first, reads, linelen, state, name, kind, aux, tags, calls, opened, emitted>>

(***************************************************************************)
(* parseScssDeclaration. Each step is one turn of its while loop; the case *)
(* P_STATE_AT_END of parseScssLine's switch is never reached, because      *)
(* parseScssLine leaves its loop on the NULL pointer that comes with that  *)
(* state and findScssTags does not call it again.                          *)
(***************************************************************************)
\* *cp == '\0' and fileReadLine delivers a line: cp moves to it, and the
\* turn goes on to vStringPut (name, *cp); ++cp; with its first byte.
parseScssDeclaration_NextLine ==
    /\ pc = "decl"
    /\ NUL \in Bytes
    /\ HasLine
    /\ reads' = reads + 1
    /\ mem' = Append(file[reads + 1], NUL)
    /\ linelen' = Len(file[reads + 1])
    /\ name' = vStringPut(name, mem'[1])
    /\ pos' = 2
    /\ UNCHANGED <<file, scan, first, state, pc, kind, aux, tags, calls, opened, emitted>>

\* The end of the input as it would be if line 82 were missing.
parseScssDeclaration_EndOfInput_NoTag ==
    /\ pc = "decl"
    /\ NUL \in Bytes
    /\ ~HasLine
    /\ reads' = reads + 1
    /\ name' = << >>
    /\ pos' = 0
    /\ state' = P_STATE_AT_END
    /\ pc' = "incr"
    /\ UNCHANGED <<file, scan, first, mem, linelen, kind, aux, calls, opened, tags, emitted>>

\* *cp == '\0' and fileReadLine returns NULL
parseScssDeclaration_EndOfInput ==
    /\ pc = "decl"
    /\ NUL \in Bytes
    /\ ~HasLine
    /\ reads' = reads + 1
    /\ tags' = makeScssSimpleTag(name, kind)
    /\ emitted' = Append(emitted, [buffer |-> name, exit |-> "NULL"])
    /\ name' = << >>
    /\ pos' = 0
    /\ state' = P_STATE_AT_END
    /\ pc' = "incr"
    /\ UNCHANGED <<file, scan, first, mem, linelen, kind, aux, calls, opened>>

\* The `,` as it would be if *position were set back to the start of the line.
parseScssDeclaration_Comma_Rewind ==
    /\ pc = "decl"
    /\ "," \in Bytes
    /\ mem' = Seen(",")
    /\ tags' = makeScssSimpleTag(name, kind)
    /\ emitted' = Append(emitted, [buffer |-> name, exit |-> ","])
    /\ name' = << >>
    /\ pos' = 1
    /\ state' = P_STATE_NONE
    /\ pc' = "incr"
    /\ UNCHANGED <<file, scan, first, reads, linelen, kind, aux, calls, opened>>

\* *cp == ','
parseScssDeclaration_Comma ==
    /\ pc = "decl"
    /\ "," \in Bytes
    /\ mem' = Seen(",")
    /\ tags' = makeScssSimpleTag(name, kind)
    /\ emitted' = Append(emitted, [buffer |-> name, exit |-> ","])
    /\ name' = << >>
    /\ pos' = pos + 1
    /\ state' = P_STATE_NONE
    /\ pc' = "incr"
    /\ UNCHANGED <<file, scan, first, reads, linelen, kind, aux, calls, opened>>

\* *cp == '{'
parseScssDeclaration_Brace ==
    /\ pc = "decl"
    /\ "{" \in Bytes
    /\ mem' = Seen("{")
    /\ tags' = makeScssSimpleTag(name, kind)
    /\ emitted' = Append(emitted, [buffer |-> name, exit |-> "{"])
    /\ name' = << >>
    /\ pos' = pos + 1
    /\ state' = P_STATE_IN_DEFINITION
    /\ pc' = "incr"
    /\ UNCHANGED <<file, scan, first, reads, linelen, kind, aux, calls, opened>>

\* any other allowed character: vStringPut (name, *cp); ++cp;
parseScssDeclaration_Put ==
    /\ pc = "decl"
    /\ \E c \in Bytes :
          /\ isScssDeclarationAllowedChar(c)
          /\ c \notin {",", "{"}
          /\ mem' = Seen(c)
          /\ name' = vStringPut(name, c)
          /\ pos' = pos + 1
    /\ UNCHANGED <<file, scan, first, reads, linelen, state, pc, kind, aux, tags, calls, opened, emitted>>

\* The end of the loop as it would be if line 104 were missing.
parseScssDeclaration_Stop_NoTag ==
    /\ pc = "decl"
    /\ \E c \in Bytes :
          /\ ~isScssDeclarationAllowedChar(c)
          /\ c # NUL
          /\ mem' = Seen(c)
    /\ name' = << >>
    /\ state' = P_STATE_NONE
    /\ pc' = "incr"
    /\ UNCHANGED <<file, scan, first, reads, linelen, pos, kind, aux, calls, opened, tags, emitted>>

\* a character that ends the loop
parseScssDeclaration_Stop ==
    /\ pc = "decl"
    /\ \E c \in Bytes :
          /\ ~isScssDeclarationAllowedChar(c)
          /\ c # NUL
          /\ mem' = Seen(c)
    /\ tags' = makeScssSimpleTag(name, kind)
    /\ emitted' = Append(emitted, [buffer |-> name, exit |-> "stop"])
    /\ name' = << >>
    /\ state' = P_STATE_NONE
    /\ pc' = "incr"
    /\ UNCHANGED <<file, scan, first, reads, linelen, pos, kind, aux, calls, opened>>

Next ==
    \/ findScssTags_ReadLine
    \/ parseScssLine_Return
    \/ parseScssLine_While
    \/ parseScssLine_SkipSpace
    \/ parseScssLine_None
    \/ parseScssLine_AtKeyword
    \/ parseScssLine_InComment
    \/ parseScssLine_InSingleString
    \/ parseScssLine_InDoubleString
    \/ parseScssLine_InMedia
    \/ parseScssLine_InImport
    \/ parseScssLine_InDefinition
    \/ parseScssLine_Next
    \/ parseScssDeclaration_NextLine
    \/ parseScssDeclaration_EndOfInput
    \/ parseScssDeclaration_Comma
    \/ parseScssDeclaration_Brace
    \/ parseScssDeclaration_Put
    \/ parseScssDeclaration_Stop

Spec == Init /\ [][Next]_vars

\* findScssTags is called again on the same input, which the line source
\* delivers from its first line; what the scan before it emitted and the
\* state it ended in are kept for comparison.
findScssTags_Again ==
    /\ pc = "done"
    /\ scan = 1
    /\ scan' = 2
    /\ first' = [tags |-> tags, state |-> state]
    /\ reads' = 0
    /\ mem' = <<NUL>>
    /\ linelen' = 0
    /\ pos' = 0
    /\ state' = P_STATE_NONE
    /\ pc' = "find"
    /\ name' = << >>
    /\ tags' = << >>
    /\ calls' = << >>
    /\ emitted' = << >>
    /\ opened' = << >>
    /\ UNCHANGED <<file, kind, aux>>

NextTwice == Next \/ findScssTags_Again

\* Two scans of one input.
SpecTwice == Init /\ [][NextTwice]_vars

TypeOK ==
    /\ file \in Inputs
    /\ reads \in 0..(Len(file) + 1)
    /\ pos \in 0..(MemEnd + 2)
    /\ Len(mem) <= MemEnd
    /\ Len(mem) < MemEnd => pos <= Len(mem) + 1
    /\ Len(emitted) = Len(tags)
    /\ state \in ScssParserState
    /\ pc \in {"find", "line", "skipws", "switch", "at", "incr", "ret", "decl", "done"}
    /\ kind \in cssKind
    /\ \A i \in 1..Len(tags) : tags[i].kind \in cssKind

(***************************************************************************)
(* The claims.                                                             *)
(***************************************************************************)
Done == pc = "done"

Tag(k, nm) == [kind |-> k, name |-> nm]

\* nm is buf without the whitespace at its end.
StrippedOf(nm, buf) ==
    /\ \E n \in 0..Len(buf) :
          /\ nm = SubSeq(buf, 1, n)
          /\ \A j \in (n + 1)..Len(buf) : isspace(buf[j])
    /\ nm # << >> => ~isspace(nm[Len(nm)])

\* t is a tag of kind k for the identifier id, named with or without the
\* character that introduces it.
TagFor(t, k, id) ==
    /\ t.kind = k
    /\ t.name \in {id, <<".">> \o id, <<"#">> \o id}

\* C1: each clause of a comma-separated class list in front of a rule body
\* yields one Class tag for its identifier and nothing in the body is
\* tagged: `.foo, .bar { color: red; }` emits a Class tag for foo and then
\* one for bar and no other tag, and so does the same list written without a
\* space after the comma, `.foo,.bar {}`. (The name is accepted with or
\* without its leading `.`.)
C1_ClassList ==
    (Done /\ file \in {In_ClassList, In_ClassListTight}) =>
        /\ Len(tags) = 2
        /\ TagFor(tags[1], K_CLASS, <<"f", "o", "o">>)
        /\ TagFor(tags[2], K_CLASS, <<"b", "a", "r">>)

\* C2: the text between a top-level `/*` and the next `*/` produces no tag
\* and later declarations are tagged: `/* .ignored { color:red; } */` and
\* then `.real {}` emit exactly one tag, of kind Class, for real; in
\* `/*/ .x { } */`, where the `/` behind `/*` does not end the comment,
\* nothing is tagged; and in the lines `/*`, `/ .x {}`, `*/`, where the
\* comment ends on the third line, nothing is tagged.
C2_Comment ==
    Done =>
        /\ file = In_Comment =>
              /\ Len(tags) = 1
              /\ TagFor(tags[1], K_CLASS, <<"r", "e", "a", "l">>)
        /\ file \in {In_CommentSlash, In_CommentLines} => tags = << >>

\* C3: a rule body is skipped up to the `}` that closes it, inner blocks
\* included: `.a { .b { x: y; } color: red; }` emits a tag only for `.a`.
C3_NestedBody ==
    (Done /\ file = In_Nested) =>
        /\ Len(tags) = 1
        /\ TagFor(tags[1], K_CLASS, <<"a">>)

\* C4: a clause list broken behind its comma, `.foo,` and then `.bar {}`,
\* emits the same tags as the list on one line, `.foo, .bar {}`: a Class tag
\* for foo and then a Class tag for bar.
C4_SplitList ==
    (Done /\ file \in {In_Split, In_Joined}) =>
        /\ Len(tags) = 2
        /\ TagFor(tags[1], K_CLASS, <<"f", "o", "o">>)
        /\ TagFor(tags[2], K_CLASS, <<"b", "a", "r">>)

\* C5: when the line source reports the end of the input to
\* parseScssDeclaration, exactly one tag is emitted, of the kind of the call
\* and holding the buffer accumulated so far (as makeScssSimpleTag
\* finalises it: a Class name without its trailing whitespace), and the
\* state becomes P_STATE_AT_END; from then on no line is requested and no
\* tag is emitted; and P_STATE_AT_END is reached in no other way.
C5_EndOfInput ==
    /\ [][(pc = "decl" /\ ~HasLine /\ reads' = reads + 1) =>
             /\ state' = P_STATE_AT_END
             /\ Len(tags') = Len(tags) + 1
             /\ SubSeq(tags', 1, Len(tags)) = tags
             /\ tags'[Len(tags')].kind = kind
             /\ IF kind = K_CLASS
                THEN StrippedOf(tags'[Len(tags')].name, name)
                ELSE tags'[Len(tags')].name = name]_vars
    /\ [][state = P_STATE_AT_END =>
             /\ state' = P_STATE_AT_END
             /\ tags' = tags
             /\ reads' = reads]_vars
    /\ [][(state # P_STATE_AT_END /\ state' = P_STATE_AT_END) =>
             /\ pc = "decl"
             /\ ~HasLine
             /\ reads' = reads + 1]_vars

\* The input ended inside a clause: the scan is over in P_STATE_AT_END and
\* its last tag holds the characters gathered until then.
C5_Witness ==
    /\ Done
    /\ state = P_STATE_AT_END
    /\ file = In_Mixed
    /\ Len(tags) = 4
    /\ emitted[4].exit = "NULL"
    /\ tags[4] = Tag(K_ID, <<"#", "d", " ">>)

\* C6: after `@media` the state stays P_STATE_IN_MEDIA, over line ends too,
\* until the first `{` and is then P_STATE_NONE, so that the rules of the
\* media block are tagged: `@media screen {`, `.nested {}`, `}` emit one
\* Class tag for nested and end in P_STATE_NONE; and `@media screen`
\* followed by the line `{` emits no tag and ends in P_STATE_NONE.
C6_Media ==
    Done =>
        /\ file = In_Media =>
              /\ Len(tags) = 1
              /\ TagFor(tags[1], K_CLASS, <<"n", "e", "s", "t", "e", "d">>)
              /\ state = P_STATE_NONE
        /\ file = In_MediaSplit =>
              /\ tags = << >>
              /\ state = P_STATE_NONE

\* C7: after `@import` or `@namespace` no tag is emitted until the first
\* `;`, looked for over line ends too, and the state is then P_STATE_NONE:
\* `@import url(x.css);` and then `.after {}` emit exactly one tag, of kind
\* Class, for after; and `@import url(x.css)` followed by the line `;`
\* emits no tag and ends in P_STATE_NONE.
C7_Import ==
    Done =>
        /\ file = In_Import =>
              /\ Len(tags) = 1
              /\ TagFor(tags[1], K_CLASS, <<"a", "f", "t", "e", "r">>)
        /\ file = In_ImportSplit =>
              /\ tags = << >>
              /\ state = P_STATE_NONE

\* C8, as the specification states it: `#header { margin: 0; }` emits
\* exactly one tag, of kind Id, named by the bare identifier header.
C8_BareIdName ==
    (Done /\ file = In_Id) =>
        tags = <<Tag(K_ID, <<"h", "e", "a", "d", "e", "r">>)>>

\* C8, amended: a clause that parseScssLine starts at a `#` is tagged with
\* kind Id and the accumulated clause as its name, which begins with the
\* `#` and keeps the whitespace in front of the terminator:
\* `#header { margin: 0; }` emits exactly one tag, (Id, "#header ").
C8_IdName ==
    /\ (Done /\ file = In_Id) =>
          tags = <<Tag(K_ID, <<"#", "h", "e", "a", "d", "e", "r", " ">>)>>
    /\ \A i \in 1..Len(tags) :
          tags[i].kind = K_ID =>
             /\ tags[i].name = emitted[i].buffer
             /\ Len(tags[i].name) >= 1
             /\ tags[i].name[1] = "#"

\* `#header { margin: 0; }` has been scanned and has given its one tag.
C8_Witness ==
    /\ Done
    /\ file = In_Id
    /\ Len(tags) = 1
    /\ tags[1].kind = K_ID
    /\ emitted[1].exit = "{"

\* C9: only Class tags lose trailing whitespace when they are emitted. The
\* name of a Selector or Id tag is exactly the accumulated buffer, the name
\* of a Class tag is the buffer without its trailing whitespace and so never
\* ends in whitespace, and `p > span { }` emits (Selector, "p > span ").
C9_Stripping ==
    /\ (Done /\ file = In_Selector) =>
          tags = <<Tag(K_SELECTOR, <<"p", " ", ">", " ", "s", "p", "a", "n", " ">>)>>
    /\ \A i \in 1..Len(tags) :
          IF tags[i].kind = K_CLASS
          THEN StrippedOf(tags[i].name, emitted[i].buffer)
          ELSE tags[i].name = emitted[i].buffer

\* One scan has emitted a Class tag that lost its trailing whitespace and a
\* Selector and an Id tag that kept theirs.
C9_Witness ==
    /\ Done
    /\ file = In_Mixed
    /\ Len(tags) = 4
    /\ tags[1] = Tag(K_CLASS, <<".", "a">>)
    /\ emitted[1].buffer = <<".", "a", " ">>
    /\ tags[2] = Tag(K_SELECTOR, <<"p", " ", ">", " ", "b", " ">>)
    /\ tags[4] = Tag(K_ID, <<"#", "d", " ">>)

\* C10: every call of parseScssDeclaration emits exactly one tag, of the
\* kind it was called with, whichever way it returns: the tags emitted are,
\* in number and kind, the calls that have returned.
C10_OneTagPerCall ==
    /\ Len(tags) = Len(calls) - (IF pc = "decl" THEN 1 ELSE 0)
    /\ \A i \in 1..Len(tags) : tags[i].kind = calls[i]

\* One scan has left parseScssDeclaration in each of its four ways.
C10_Witness ==
    /\ Done
    /\ Len(calls) = 4
    /\ Len(tags) = 4
    /\ {emitted[i].exit : i \in 1..Len(emitted)} = {",", "{", "stop", "NULL"}

\* C11: the scan is deterministic. A second scan of the same lines, started
\* in P_STATE_NONE like the first, emits the same tags in the same order and
\* ends in the same state as the first.
C11_Deterministic ==
    (Done /\ scan = 2) =>
        /\ tags = first.tags
        /\ state = first.state

\* (line, column) a lies in front of (line, column) b.
InFrontOf(a, b) == a[1] < b[1] \/ (a[1] = b[1] /\ a[2] < b[2])

\* C12: tags are emitted in the order of the input and one declaration is
\* in flight at a time. The character a call of parseScssDeclaration starts
\* at lies behind the characters all earlier calls started at, and a call
\* starts only when every earlier call has emitted its tag, so that the
\* i-th tag is the tag of the i-th call.
C12_InOrder ==
    /\ \A i, j \in 1..Len(opened) : i < j => InFrontOf(opened[i], opened[j])
    /\ Len(opened) = Len(calls)
    /\ Len(tags) <= Len(opened)
    /\ Len(opened) <= Len(tags) + 1
    /\ pc = "switch" => Len(opened) = Len(tags)

\* Two declarations on two lines have been scanned, one after the other.
C12_Witness ==
    /\ Done
    /\ file = In_Split
    /\ Len(tags) = 2
    /\ opened = << <<1, 1>>, <<2, 1>> >>

\* C13: after parseScssDeclaration has returned on `,` or `{`, parseScssLine
\* goes on with the character behind that terminator and skips none: the
\* line `.a {}` ends in P_STATE_NONE, the lines `.a {}` and `.b {}` emit two
\* tags, and `.foo,.bar {}` emits two Class tags.
C13_NoSkip ==
    Done =>
        /\ file = In_OneRule => state = P_STATE_NONE
        /\ file = In_TwoRules => Len(tags) = 2
        /\ file = In_ClassListTight =>
              /\ Len(tags) = 2
              /\ tags[1].kind = K_CLASS
              /\ tags[2].kind = K_CLASS

\* C14: the cursor never moves beyond the terminator of the current line.
C14_CursorInLine == pos <= linelen + 1

\* s has the character c in it.
Contains(s, c) == \E i \in 1..Len(s) : s[i] = c

\* C15: the first character of a line that parseScssDeclaration fetches is
\* treated like every other character, so no tag name has a `{` or a `,`
\* in it, and the lines `.foo` and `{` emit the Class tag for foo and
\* end in P_STATE_IN_DEFINITION.
C15_ContinuationLine ==
    /\ \A i \in 1..Len(tags) :
          ~Contains(tags[i].name, "{") /\ ~Contains(tags[i].name, ",")
    /\ (Done /\ file = In_SplitBrace) =>
          /\ Len(tags) = 1
          /\ TagFor(tags[1], K_CLASS, <<"f", "o", "o">>)
          /\ state = P_STATE_IN_DEFINITION

\* The byte under the cursor when parseScssLine's switch is reached.
Cur == IF pos >= 1 /\ pos <= Len(mem) THEN mem[pos] ELSE NUL

\* C16: a lookback never matches at the first character of a line, where no
\* character precedes: there a `*` does not enter P_STATE_IN_COMMENT, a `/`
\* does not leave it, and a quote closes its string.
C16_NoLookbackAtLineStart ==
    [][(pc = "switch" /\ pos = 1) =>
          /\ state = P_STATE_NONE => state' # P_STATE_IN_COMMENT
          /\ state = P_STATE_IN_COMMENT => state' = P_STATE_IN_COMMENT
          /\ (state = P_STATE_IN_SINGLE_STRING /\ Cur = "'") =>
                state' = P_STATE_IN_DEFINITION
          /\ (state = P_STATE_IN_DOUBLE_STRING /\ Cur = "\"") =>
                state' = P_STATE_IN_DEFINITION]_vars

\* C17: the scan terminates on every finite input: as long as findScssTags
\* has not returned, the program has a next step that leads on, also on the
\* line `@media`, where the keyword is the last thing on the line.
C17_Terminates == Done \/ ENABLED Next

StringStates == {P_STATE_IN_SINGLE_STRING, P_STATE_IN_DOUBLE_STRING}

BodyStates == {P_STATE_IN_PAGE, P_STATE_IN_FONTFACE, P_STATE_IN_DEFINITION}

\* The quote that delimits the string of state st.
QuoteOf(st) == IF st = P_STATE_IN_SINGLE_STRING THEN "'" ELSE "\""

\* C18: a string state is entered only from a rule body, at its quote; it is
\* left only at its own quote when the character in front of that quote is
\* not a backslash, and then for P_STATE_IN_DEFINITION, never for
\* P_STATE_NONE; so a `}` or the other quote inside the string changes
\* nothing, on whichever line of the string they stand.
C18_Strings ==
    [][/\ (state' \in StringStates /\ state' # state) =>
             /\ state \in BodyStates
             /\ pc = "switch"
             /\ Cur = QuoteOf(state')
       /\ (state \in StringStates /\ state' # state) =>
             /\ state' = P_STATE_IN_DEFINITION
             /\ pc = "switch"
             /\ Cur = QuoteOf(state)
             /\ pos > 1 => mem[pos - 1] # "\\"]_vars

\* A double-quoted string that began on the first line is still open on the
\* second, behind a `}`, a `'` and an escaped `"`.
C18_Witness ==
    /\ file = In_String
    /\ reads = 2
    /\ pos = 3
    /\ pc = "line"
    /\ state = P_STATE_IN_DOUBLE_STRING

\* C19: tags come only from a call of parseScssDeclaration made in
\* P_STATE_NONE: the state is P_STATE_NONE whenever parseScssDeclaration is
\* called, while it runs and when a tag is emitted, so no character
\* processed in any other state emits a tag.
C19_TagsOnlyFromNone ==
    /\ [](pc = "decl" => state = P_STATE_NONE)
    /\ [][tags' # tags => (pc = "decl" /\ state = P_STATE_NONE)]_vars
    /\ [][calls' # calls => (pc = "switch" /\ state = P_STATE_NONE)]_vars

\* Inside the body of `.a` the `.` of `.b` has been passed without a call
\* and without a tag.
C19_Witness ==
    /\ file = In_Nested
    /\ state = P_STATE_IN_DEFINITION
    /\ pc = "incr"
    /\ Cur = "."
    /\ Len(tags) = 1
    /\ Len(calls) = 1

\* C20: every emitted tag name is non-empty: the buffer handed to
\* makeScssSimpleTag begins with the alphanumeric character, the `.` or the
\* `#` the call started at, and stripping leaves that character in place.
C20_NonEmptyName ==
    \A i \in 1..Len(tags) :
       /\ Len(emitted[i].buffer) >= 1
       /\ isalnum(emitted[i].buffer[1]) \/ emitted[i].buffer[1] \in {".", "#"}
       /\ Len(tags[i].name) >= 1
       /\ tags[i].name[1] = emitted[i].buffer[1]

\* A Class tag whose buffer was a `.` and whitespace has been emitted: the
\* `.` is what is left of it.
C20_Witness ==
    \E i \in 1..Len(tags) :
       /\ tags[i] = Tag(K_CLASS, <<".">>)
       /\ emitted[i].buffer = <<".", " ">>

=============================================================================
